---------------------------- MODULE Spec2Model ----------------------------
(***************************************************************************)
(* A model of tensorboard_reducer/write.py: the overwrite guard            *)
(* force_rm_or_raise, the event-log writer write_tb_events and the table   *)
(* writer write_csv, over an explicit filesystem.                          *)
(*                                                                         *)
(* Strings are sequences of tokens, so that f"{outdir}-{op}" is            *)
(* concatenation, str.endswith / str.startswith look at the last / first   *)
(* token, and the shell that os.system hands "rm -rf {path}" to splits the *)
(* command line at the " " token.                                          *)
(*                                                                         *)
(* Outcomes carry the Python exception names.  The specification's names   *)
(* are: AlreadyExistsError = FileExistsError, UnsafeOverwriteError = the   *)
(* ValueError of line 30, InvalidArgumentError = the AssertionError of     *)
(* line 121.                                                               *)
(***************************************************************************)
EXTENDS Integers, Sequences, FiniteSets, TLC

VARIABLES
    fs,        \* the filesystem: path -> node
    dataset,   \* the caller's op -> tag -> series mapping (a Python dict, by reference)
    orig,      \* the dataset as the reducer built it (never written by write.py)
    call,      \* the call in progress or just finished: function, path, overwrite, number
    pc,        \* position inside the call
    w,         \* write_tb_events' locals
    outcome,   \* "none" while running, then "ok" or the exception raised
    log,       \* what the current call did to its collaborators, in order
    fs0,       \* the filesystem when the current call started
    prev       \* the call before the current one: where it started, how and where it ended

vars == <<fs, dataset, orig, call, pc, w, outcome, log, fs0, prev>>

----------------------------------------------------------------------------
(* Bounds of the model.                                                    *)

MaxSteps == 2
MaxOps == 2
MaxCalls == 2

----------------------------------------------------------------------------
(* Strings.                                                                *)

EndsWith(s, suffix) == Len(s) > 0 /\ s[Len(s)] = suffix

StartsWith(s, prefix) == Len(s) > 0 /\ s[1] = prefix

\* The words /bin/sh makes of an unquoted string: split at blanks.
RECURSIVE SplitAt(_, _)
SplitAt(s, cur) ==
    IF s = <<>> THEN (IF cur = <<>> THEN {} ELSE {cur})
    ELSE IF Head(s) = " "
         THEN (IF cur = <<>> THEN {} ELSE {cur}) \cup SplitAt(Tail(s), <<>>)
         ELSE SplitAt(Tail(s), Append(cur, Head(s)))

ShellWords(s) == SplitAt(s, <<>>)

----------------------------------------------------------------------------
(* The filesystem.  A node is absent, a regular file with its rows, or a   *)
(* directory with its entries; an entry is a file name and the records     *)
(* stored in it.                                                           *)

AbsentNode == [kind |-> "absent", children |-> <<>>, data |-> <<>>]

FileNode(rows) == [kind |-> "file", children |-> <<>>, data |-> rows]

DirNode(entries) == [kind |-> "dir", children |-> entries, data |-> <<>>]

Exists(f, path) == f[path].kind # "absent"

IsDir(f, path) == f[path].kind = "dir"

\* os.listdir(path)[0]: the listing is in arbitrary order, so the first
\* listed child is any child; an empty listing has no element 0.
ListdirFirst(f, path) ==
    IF IsDir(f, path) /\ f[path].children # <<>>
    THEN 1 .. Len(f[path].children)
    ELSE {1}

\* os.system(f"rm -rf {path}"): the shell removes every word of the command
\* line after "rm -rf"; rm's exit status is ignored.
RmRf(f, path) ==
    [p \in DOMAIN f |-> IF p \in ShellWords(path) THEN AbsentNode ELSE f[p]]

----------------------------------------------------------------------------
(* force_rm_or_raise(path, overwrite), with k the position in the          *)
(* directory of the child that os.listdir lists first.                     *)

is_csv_file(path) == EndsWith(path, ".csv")

is_tb_run_dir(f, path, k) ==
    IsDir(f, path) /\ StartsWith(f[path].children[k].name, "events.out")

ForceRmOrRaise(f, path, overwrite, k) ==
    IF ~Exists(f, path) THEN [out |-> "ok", fs |-> f]
    \* line 23: os.listdir(path)[0] of an empty directory
    ELSE IF IsDir(f, path) /\ f[path].children = <<>>
         THEN [out |-> "IndexError", fs |-> f]
    ELSE IF overwrite /\ (is_csv_file(path) \/ is_tb_run_dir(f, path, k))
         THEN [out |-> "ok", fs |-> RmRf(f, path)]
    \* lines 29-34: the ValueError is constructed and dropped, never raised
    ELSE IF overwrite THEN [out |-> "ok", fs |-> f]
    ELSE [out |-> "FileExistsError", fs |-> f]

\* What one guard invocation saw and did, for the call's log.
GuardEvent(f, path, overwrite, k) ==
    [ev |-> "guard", path |-> path,
     existed |-> Exists(f, path),
     ours |-> Exists(f, path)
              /\ (is_csv_file(path)
                  \/ (IsDir(f, path) /\ f[path].children # <<>>
                      /\ is_tb_run_dir(f, path, k))),
     out |-> ForceRmOrRaise(f, path, overwrite, k).out]

----------------------------------------------------------------------------
(* The reduced data: a dict op -> dict tag -> series, each dict a sequence *)
(* of entries in insertion order, a series a sequence of (step, value).    *)

\* The float NaN: pandas' marker of a missing cell, and a value a series may hold.
NaN == -9999

IsNaN(v) == v = NaN

Add(x, y) == IF IsNaN(x) \/ IsNaN(y) THEN NaN ELSE x + y

Sub(x, y) == IF IsNaN(x) \/ IsNaN(y) THEN NaN ELSE x - y

Keys(d) == {d[i].op : i \in DOMAIN d}

Get(d, op) == d[CHOOSE i \in DOMAIN d : d[i].op = op].tags

\* dict.popitem() in the place of dict.pop(key): the last entry goes.
PopItem(d, op) == SubSeq(d, 1, Len(d) - 1)

\* dict.pop(key): the entry goes, the others keep their order.
Pop(d, op) == SelectSeq(d, LAMBDA e : e.op # op)

Min(a, b) == IF a <= b THEN a ELSE b

----------------------------------------------------------------------------
(* write_tb_events(data_to_write, outdir, overwrite), one step per         *)
(* statement that touches the dataset, the guard or the sink.              *)

Dest(outdir, op) == outdir \o <<"-", op>>

WIdle ==
    [std_dict |-> <<>>, mean_dict |-> <<>>, band |-> FALSE, oi |-> 0,
     dest |-> <<>>, ti |-> 0, pi |-> 0]

NewEventFile == [name |-> <<"events.out", ".tfevents">>, recs |-> <<>>]

Event(ev, path) ==
    [ev |-> ev, path |-> path, existed |-> FALSE, ours |-> FALSE, out |-> "ok"]

\* zip(mean_dict.items(), std_dict.values()) and, inside it,
\* zip(means.items(), stds.to_numpy()): how many points each pair yields.
BandLens(mean_dict, std_dict) ==
    [i \in 1 .. Min(Len(mean_dict), Len(std_dict)) |->
        Min(Len(mean_dict[i].series), Len(std_dict[i].series))]

PlainLens(events_dict) == [i \in 1 .. Len(events_dict) |-> Len(events_dict[i].series)]

Lens(d, ww) ==
    IF ww.band THEN BandLens(ww.mean_dict, ww.std_dict) ELSE PlainLens(d[ww.oi].tags)

\* The next (tag, point) position of the nested loops at or after (ti, pi);
\* ti beyond the last tag when the loops are over.
RECURSIVE Norm(_, _, _)
Norm(lens, ti, pi) ==
    IF ti > Len(lens) THEN <<ti, 1>>
    ELSE IF pi > lens[ti] THEN Norm(lens, ti + 1, 1)
    ELSE <<ti, pi>>

\* writer.add_scalars(tag, {"mean+std": mean + std, "mean-std": mean - std}, step)
BandRecord(mean_dict, std_dict, ti, pi) ==
    LET means == mean_dict[ti].series
        stds  == std_dict[ti].series
    IN  [kind |-> "scalars", tag |-> mean_dict[ti].tag, step |-> means[pi].step,
         values |-> <<Add(means[pi].value, stds[pi].value),
                      Sub(means[pi].value, stds[pi].value)>>]

\* writer.add_scalar(tag, value, step)
PlainRecord(events_dict, ti, pi) ==
    [kind |-> "scalar", tag |-> events_dict[ti].tag,
     step |-> events_dict[ti].series[pi].step,
     values |-> <<events_dict[ti].series[pi].value>>]

\* The sink appends to the event file it created, the directory's newest entry.
AddToSink(f, dest, rec) ==
    LET n == Len(f[dest].children)
    IN  [f EXCEPT ![dest].children[n].recs = Append(@, rec)]

\* The head of "for op, events_dict in data_to_write.items()": the next
\* operation's destination, or the end of the call.
EnterLoop(d, ww) ==
    IF ww.oi + 1 > Len(d)
    THEN /\ pc' = "done"
         /\ outcome' = "ok"
         /\ w' = [ww EXCEPT !.oi = ww.oi + 1, !.band = FALSE]
    ELSE /\ pc' = "guard"
         /\ outcome' = outcome
         /\ w' = [ww EXCEPT !.oi = ww.oi + 1, !.band = FALSE,
                            !.dest = Dest(call.path, d[ww.oi + 1].op),
                            !.ti = 0, !.pi = 0]

\* lines 63-68
TbBegin ==
    /\ call.fn = "tb" /\ pc = "ready"
    /\ IF "mean" \in Keys(dataset) /\ "std" \in Keys(dataset)
       THEN /\ dataset' = Pop(dataset, "std")
            /\ w' = [WIdle EXCEPT !.std_dict = Get(dataset, "std"),
                                  !.mean_dict = Get(dataset, "mean"),
                                  !.band = TRUE,
                                  !.dest = Dest(call.path, "std")]
            /\ pc' = "guard"
            /\ outcome' = outcome
       ELSE /\ dataset' = dataset
            /\ EnterLoop(dataset, WIdle)
    /\ UNCHANGED <<fs, orig, call, log, fs0, prev>>

\* lines 70 and 89
TbGuard ==
    /\ call.fn = "tb" /\ pc = "guard"
    /\ \E k \in ListdirFirst(fs, w.dest) :
         LET r == ForceRmOrRaise(fs, w.dest, call.overwrite, k)
         IN  /\ fs' = r.fs
             /\ log' = Append(log, GuardEvent(fs, w.dest, call.overwrite, k))
             /\ IF r.out = "ok"
                THEN pc' = "open" /\ outcome' = outcome
                ELSE pc' = "done" /\ outcome' = r.out
    /\ UNCHANGED <<dataset, orig, call, w, fs0, prev>>

\* lines 72 and 91: SummaryWriter(dir) makes the directory when it is absent
\* and creates its event file in it; a regular file in the way is an error
\* of the sink.
TbOpen ==
    /\ call.fn = "tb" /\ pc = "open"
    /\ IF fs[w.dest].kind = "file"
       THEN /\ pc' = "done" /\ outcome' = "SinkError"
            /\ UNCHANGED <<fs, log, w>>
       ELSE LET pos == Norm(Lens(dataset, w), 1, 1)
            IN  /\ fs' = [fs EXCEPT ![w.dest] =
                            DirNode(Append(fs[w.dest].children, NewEventFile))]
                /\ log' = Append(log, Event("open", w.dest))
                /\ w' = [w EXCEPT !.ti = pos[1], !.pi = pos[2]]
                /\ pc' = IF pos[1] > Len(Lens(dataset, w)) THEN "close" ELSE "emit"
                /\ outcome' = outcome
    /\ UNCHANGED <<dataset, orig, call, fs0, prev>>

\* lines 74-80 and 93-95, one point per step
TbEmit ==
    /\ call.fn = "tb" /\ pc = "emit"
    /\ LET rec == IF w.band
                  THEN BandRecord(w.mean_dict, w.std_dict, w.ti, w.pi)
                  ELSE PlainRecord(dataset[w.oi].tags, w.ti, w.pi)
           pos == Norm(Lens(dataset, w), w.ti, w.pi + 1)
       IN  /\ fs' = AddToSink(fs, w.dest, rec)
           /\ w' = [w EXCEPT !.ti = pos[1], !.pi = pos[2]]
           /\ pc' = IF pos[1] > Len(Lens(dataset, w)) THEN "close" ELSE "emit"
    /\ UNCHANGED <<dataset, orig, call, outcome, log, fs0, prev>>

\* lines 82 and 100, then back to the head of the loop
TbClose ==
    /\ call.fn = "tb" /\ pc = "close"
    /\ log' = Append(log, Event("close", w.dest))
    /\ EnterLoop(dataset, w)
    /\ UNCHANGED <<fs, dataset, orig, call, fs0, prev>>

----------------------------------------------------------------------------
(* write_csv(data_to_write, csv_path, overwrite) and the reload            *)
(* convention of its docstring.  A frame is an index (the steps, sorted),  *)
(* the column keys, and one row of values per index entry.                 *)

RECURSIVE SortedSeq(_)
SortedSeq(S) ==
    IF S = {} THEN <<>>
    ELSE LET m == CHOOSE x \in S : \A y \in S : x <= y
         IN  <<m>> \o SortedSeq(S \ {m})

StepsOf(series) == {series[i].step : i \in DOMAIN series}

\* series.get(step), NaN where the series has no such step
ValueAt(series, step) ==
    IF step \in StepsOf(series)
    THEN series[CHOOSE i \in DOMAIN series : series[i].step = step].value
    ELSE NaN

\* pd.DataFrame(dic): one column per tag, the rows the union of the steps.
DataFrame(dic) ==
    LET index == SortedSeq(UNION {StepsOf(dic[j].series) : j \in DOMAIN dic})
    IN  [index |-> index,
         columns |-> [j \in DOMAIN dic |-> <<dic[j].tag>>],
         rows |-> [i \in DOMAIN index |->
                     [j \in DOMAIN dic |-> ValueAt(dic[j].series, index[i])]]]

\* The cell of a frame at a step, NaN where the frame has no such row.
FrameAt(df, step, j) ==
    IF \E i \in DOMAIN df.index : df.index[i] = step
    THEN df.rows[CHOOSE i \in DOMAIN df.index : df.index[i] = step][j]
    ELSE NaN

RECURSIVE ConcatColumns(_, _)
ConcatColumns(d, i) ==
    IF i > Len(d) THEN <<>>
    ELSE [j \in DOMAIN d[i].tags |-> <<i, j>>] \o ConcatColumns(d, i + 1)

\* pd.concat(dict_of_dfs, axis=1): the frames side by side, keyed (op, tag),
\* the rows the union of the frames' rows (an outer join).
Concat(d) ==
    LET dfs   == [i \in DOMAIN d |-> DataFrame(d[i].tags)]
        index == SortedSeq(UNION {{dfs[i].index[r] : r \in DOMAIN dfs[i].index}
                                   : i \in DOMAIN d})
        cols  == ConcatColumns(d, 1)
    IN  [index |-> index,
         columns |-> [c \in DOMAIN cols |->
                        <<d[cols[c][1]].op>> \o dfs[cols[c][1]].columns[cols[c][2]]],
         rows |-> [r \in DOMAIN index |->
                     [c \in DOMAIN cols |->
                        FrameAt(dfs[cols[c][1]], index[r], cols[c][2])]]]

\* The levels left as pd.concat made them: (op, tag).
NoSwapLevel(df) == df

\* df.columns = df.columns.swaplevel(0, 1)
SwapLevel(df) ==
    [df EXCEPT !.columns = [c \in DOMAIN df.columns |->
                              <<df.columns[c][2], df.columns[c][1]>>]]

CellText(v) == IF IsNaN(v) THEN "" ELSE ToString(v)

\* df.to_csv(path) of a frame with two column levels and the index named
\* "step": one header row per level, the row of the index name, the rows.
ToCsv(df) ==
    << <<"">> \o [c \in DOMAIN df.columns |-> df.columns[c][1]],
       <<"">> \o [c \in DOMAIN df.columns |-> df.columns[c][2]],
       <<"step">> \o [c \in DOMAIN df.columns |-> ""] >>
    \o [r \in DOMAIN df.index |->
          <<ToString(df.index[r])>> \o [c \in DOMAIN df.columns |->
                                          CellText(df.rows[r][c])]]

\* lines 127-131
BuildTable(d) == SwapLevel(Concat(d))

\* The assertion left out, or compiled away.
NoAssert(path) == TRUE

\* line 121: assert csv_path.endswith(".csv")
CsvPathOk(path) == EndsWith(path, ".csv")

\* lines 121-132, the whole call
WriteCsv ==
    /\ call.fn = "csv" /\ pc = "ready"
    /\ pc' = "done"
    /\ IF ~CsvPathOk(call.path)
       THEN /\ outcome' = "AssertionError"
            /\ UNCHANGED <<fs, log>>
       ELSE \E k \in ListdirFirst(fs, call.path) :
              LET r == ForceRmOrRaise(fs, call.path, call.overwrite, k)
                  g == GuardEvent(fs, call.path, call.overwrite, k)
              IN  IF r.out # "ok"
                  THEN /\ outcome' = r.out /\ fs' = r.fs
                       /\ log' = Append(log, g)
                  \* pd.concat of no frames: "No objects to concatenate"
                  ELSE IF dataset = <<>>
                  THEN /\ outcome' = "ValueError" /\ fs' = r.fs
                       /\ log' = Append(log, g)
                  \* open(csv_path, "w") of a directory
                  ELSE IF IsDir(r.fs, call.path)
                  THEN /\ outcome' = "SinkError" /\ fs' = r.fs
                       /\ log' = Append(log, g)
                  ELSE /\ outcome' = "ok"
                       /\ fs' = [r.fs EXCEPT ![call.path] =
                                   FileNode(ToCsv(BuildTable(dataset)))]
                       /\ log' = log \o <<g, Event("open", call.path)>>
    /\ UNCHANGED <<dataset, orig, call, w, fs0, prev>>

\* force_rm_or_raise called on its own, lines 18-39
CallGuard ==
    /\ call.fn = "guard" /\ pc = "ready"
    /\ pc' = "done"
    /\ \E k \in ListdirFirst(fs, call.path) :
         LET r == ForceRmOrRaise(fs, call.path, call.overwrite, k)
         IN  /\ fs' = r.fs
             /\ outcome' = r.out
             /\ log' = Append(log, GuardEvent(fs, call.path, call.overwrite, k))
    /\ UNCHANGED <<dataset, orig, call, w, fs0, prev>>

----------------------------------------------------------------------------
(* The inputs: datasets, destinations, and what the filesystem holds       *)
(* before the call.                                                        *)

OpNames == <<"mean", "std", "min">>

TagNames == <<"a", "b">>

OpSet == {OpNames[i] : i \in DOMAIN OpNames}

TagSet == {TagNames[i] : i \in DOMAIN TagNames}

IndexIn(names, x) == CHOOSE i \in DOMAIN names : names[i] = x

\* Every point of a dataset has a value of its own, so that a point written
\* under the wrong operation, tag or step shows.
Val(op, tag, step) == 100 * IndexIn(OpNames, op) + 10 * IndexIn(TagNames, tag) + step

MaxValue == 100 * Len(OpNames) + 10 * Len(TagNames) + MaxSteps

SeriesOf(op, tag, steps) ==
    LET st == SortedSeq(steps)
    IN  [i \in DOMAIN st |-> [step |-> st[i], value |-> Val(op, tag, st[i])]]

\* The sequences of at most n distinct elements of S.
RECURSIVE Arrangements(_, _)
Arrangements(S, n) ==
    IF n = 0 THEN {<<>>}
    ELSE {<<>>} \cup UNION {{<<x>> \o r : r \in Arrangements(S \ {x}, n - 1)} : x \in S}

TagOrders == Arrangements(TagSet, Len(TagNames)) \ {<<>>}

\* Datasets for the event-log writer: any operations in any insertion order,
\* each with its own insertion order of tags, all series over steps 0..n-1.
MkTb(ops, orders, n) ==
    [i \in DOMAIN ops |->
       [op |-> ops[i],
        tags |-> [j \in DOMAIN orders[ops[i]] |->
                    [tag |-> orders[ops[i]][j],
                     series |-> SeriesOf(ops[i], orders[ops[i]][j], 0 .. n - 1)]]]]

DatasetsTb ==
    {MkTb(ops, orders, n) : ops \in Arrangements(OpSet, MaxOps),
                            orders \in [OpSet -> TagOrders],
                            n \in 1 .. MaxSteps}

\* Datasets for the table writer: each series over all the steps, over the
\* first step only or over the last step only, and possibly a NaN as the
\* first value of the first series.
StepChoices == {0 .. MaxSteps - 1, {0}, {MaxSteps - 1}}

WithNaN(d) ==
    IF d # <<>> /\ d[1].tags # <<>> /\ d[1].tags[1].series # <<>>
    THEN [d EXCEPT ![1].tags[1].series[1].value = NaN]
    ELSE d

MkCsv(ops, ntags, steps) ==
    [i \in DOMAIN ops |->
       [op |-> ops[i],
        tags |-> [j \in 1 .. ntags[ops[i]] |->
                    [tag |-> TagNames[j],
                     series |-> SeriesOf(ops[i], TagNames[j],
                                         steps[<<ops[i], TagNames[j]>>])]]]]

InOrder(ops) ==
    \A i, j \in DOMAIN ops : i < j => IndexIn(OpNames, ops[i]) < IndexIn(OpNames, ops[j])

CsvBase ==
    {MkCsv(ops, ntags, steps) : ops \in {o \in Arrangements(OpSet, MaxOps) : InOrder(o)},
                                ntags \in [OpSet -> 1 .. Len(TagNames)],
                                steps \in [OpSet \X TagSet -> StepChoices]}

DatasetsCsv == CsvBase \cup {WithNaN(d) : d \in CsvBase}

RunPrefix == <<"run">>

SpacePrefix == <<"my", " ", "run">>

CsvPath == <<"out", ".csv">>

SpaceCsvPath == <<"my", " ", "out", ".csv">>

TxtPath == <<"out", ".txt">>

Paths ==
    LET named == {Dest(pre, op) : pre \in {RunPrefix, SpacePrefix}, op \in OpSet}
                 \cup {CsvPath, SpaceCsvPath, TxtPath}
    IN  named \cup UNION {ShellWords(p) : p \in named}

\* What a path may hold before the call.
StaleRecord == [kind |-> "scalar", tag |-> "a", step |-> 0, values |-> <<999>>]

OldEvents == [name |-> <<"events.out", ".old">>, recs |-> <<StaleRecord>>]

Notes == [name |-> <<"notes", ".txt">>, recs |-> <<>>]

KindNode(kind) ==
    CASE kind = "absent"  -> AbsentNode
      [] kind = "file"    -> FileNode(<< <<"user data">> >>)
      [] kind = "empty"   -> DirNode(<<>>)
      [] kind = "ours"    -> DirNode(<<OldEvents>>)
      [] kind = "foreign" -> DirNode(<<Notes>>)
      [] kind = "mixed"   -> DirNode(<<Notes, OldEvents>>)

\* A user's file named "my" is always there.
BaseFs == [p \in Paths |-> IF p = <<"my">> THEN KindNode("file") ELSE AbsentNode]

TbEnvs ==
    {[prefix |-> RunPrefix, kind |-> "absent", occupied |-> {}]}
    \cup {[prefix |-> RunPrefix, kind |-> k, occupied |-> o] :
            k \in {"ours", "mixed", "file", "empty"}, o \in {OpSet, {"mean"}}}
    \cup {[prefix |-> SpacePrefix, kind |-> k, occupied |-> IF k = "absent" THEN {} ELSE OpSet] :
            k \in {"absent", "ours"}}

TbFs(env) ==
    [p \in Paths |->
       IF \E op \in env.occupied : p = Dest(env.prefix, op)
       THEN KindNode(env.kind) ELSE BaseFs[p]]

CsvEnvs ==
    {<<CsvPath, k>> : k \in {"absent", "file", "ours", "empty"}}
    \cup {<<SpaceCsvPath, k>> : k \in {"file", "ours"}}
    \cup {<<TxtPath, k>> : k \in {"absent", "ours"}}

GuardEnvs ==
    {CsvPath, TxtPath, Dest(RunPrefix, "mean"), Dest(SpacePrefix, "mean")}
    \X {"absent", "file", "empty", "ours", "foreign", "mixed"}

NoPrev == [set |-> FALSE, fs |-> BaseFs, fs0 |-> BaseFs, outcome |-> "none",
           overwrite |-> FALSE, rebuilt |-> FALSE]

Start(fn, path, overwrite, f, d) ==
    /\ call = [fn |-> fn, path |-> path, overwrite |-> overwrite, no |-> 1]
    /\ fs = f /\ fs0 = f
    /\ dataset = d /\ orig = d
    /\ pc = "ready" /\ w = WIdle /\ outcome = "none" /\ log = <<>>
    /\ prev = NoPrev

InitGuard ==
    \E e \in GuardEnvs, o \in BOOLEAN :
       Start("guard", e[1], o, [BaseFs EXCEPT ![e[1]] = KindNode(e[2])], <<>>)

InitTb ==
    \E env \in TbEnvs, o \in BOOLEAN, d \in DatasetsTb :
       Start("tb", env.prefix, o, TbFs(env), d)

InitCsv ==
    \E e \in CsvEnvs, o \in BOOLEAN, d \in DatasetsCsv :
       Start("csv", e[1], o, [BaseFs EXCEPT ![e[1]] = KindNode(e[2])], d)

Init == InitGuard \/ InitTb \/ InitCsv

----------------------------------------------------------------------------
(* Reading the table back.                                                 *)

\* pandas.read_csv(path, header=[0, 1], index_col=0), lines 110-111: the
\* first two rows are the column levels, the first column is the index, the
\* row that names the index holds no data, an empty cell reads as NaN.
ParseInt(s) == CHOOSE v \in 0 .. MaxValue : ToString(v) = s

ParseCell(s) == IF s = "" THEN NaN ELSE ParseInt(s)

ReadCsv(rows) ==
    LET ncol == Len(rows[1]) - 1
        body == SubSeq(rows, 4, Len(rows))
    IN  [index |-> [r \in DOMAIN body |-> ParseInt(body[r][1])],
         columns |-> [c \in 1 .. ncol |-> <<rows[1][c + 1], rows[2][c + 1]>>],
         rows |-> [r \in DOMAIN body |-> [c \in 1 .. ncol |-> ParseCell(body[r][c + 1])]]]

----------------------------------------------------------------------------
(* The caller: an interruption of a running write_tb_events, and a second  *)
(* call of the same writer on the same destination with overwrite=True,    *)
(* either with the dataset object the first call was given or with the     *)
(* dataset built anew.                                                     *)

Interrupt ==
    /\ call.fn = "tb" /\ call.no = 1
    /\ pc \in {"guard", "open", "emit", "close"}
    /\ pc' = "done"
    /\ outcome' = "interrupted"
    /\ UNCHANGED <<fs, dataset, orig, call, w, log, fs0, prev>>

Retry ==
    /\ call.fn \in {"tb", "csv"} /\ pc = "done"
    /\ call.no < MaxCalls
    /\ \E rebuilt \in BOOLEAN :
         /\ dataset' = IF rebuilt THEN orig ELSE dataset
         /\ prev' = [set |-> TRUE, fs |-> fs, fs0 |-> fs0, outcome |-> outcome,
                     overwrite |-> call.overwrite, rebuilt |-> rebuilt]
    /\ call' = [call EXCEPT !.no = @ + 1, !.overwrite = TRUE]
    /\ pc' = "ready" /\ w' = WIdle /\ outcome' = "none" /\ log' = <<>>
    /\ fs0' = fs
    /\ UNCHANGED <<fs, orig>>

Write == TbBegin \/ TbGuard \/ TbOpen \/ TbEmit \/ TbClose \/ WriteCsv \/ CallGuard

Next == Write

NextRetry == Write \/ Interrupt \/ Retry

\* One call of the guard or of a writer.
Spec == Init /\ [][Next]_vars

\* A call, possibly interrupted, and a second call with overwrite=True.
SpecRetry == Init /\ [][NextRetry]_vars

----------------------------------------------------------------------------
(* Vocabulary of the properties.                                           *)

Done(fn) == call.fn = fn /\ pc = "done"

GuardEvents == {i \in DOMAIN log : log[i].ev = "guard"}

Opened == {log[i].path : i \in {j \in DOMAIN log : log[j].ev = "open"}}

RECURSIVE RecsOf(_)
RecsOf(children) ==
    IF children = <<>> THEN <<>> ELSE Head(children).recs \o RecsOf(Tail(children))

\* Every record stored under a directory, oldest file first.
AllRecs(f, path) == RecsOf(f[path].children)

\* The records of the event file the call created last in a directory.
NewestRecs(f, path) == f[path].children[Len(f[path].children)].recs

TagsIn(tagtable) == {tagtable[j].tag : j \in DOMAIN tagtable}

SeriesFor(tagtable, tag) ==
    tagtable[CHOOSE j \in DOMAIN tagtable : tagtable[j].tag = tag].series

Merged(d) == "mean" \in Keys(d) /\ "std" \in Keys(d)

\* The (operation, tag, step, value) quadruples of a dataset and of a table
\* whose columns are keyed (tag, operation).
QuadsOf(d) ==
    UNION {UNION {{<<d[i].op, d[i].tags[j].tag, d[i].tags[j].series[n].step,
                     d[i].tags[j].series[n].value>> : n \in DOMAIN d[i].tags[j].series}
                  : j \in DOMAIN d[i].tags}
           : i \in DOMAIN d}

QuadsOfTable(t) ==
    {<<t.columns[c][2], t.columns[c][1], t.index[r], t.rows[r][c]>> :
        r \in DOMAIN t.index, c \in DOMAIN t.columns}

NonMissing(quads) == {q \in quads : ~IsNaN(q[4])}

----------------------------------------------------------------------------
(* The overwrite guard.                                                    *)

EmptyDir(f, path) == IsDir(f, path) /\ f[path].children = <<>>

\* C1: a guard invocation with overwrite=True that finds an existing path
\* the heuristic does not recognise ends in the ValueError
\* (UnsafeOverwriteError), the path keeps its content, and the writer opens
\* no sink on that path.  Stated for a regular file or a directory with
\* entries; the empty directory, whose listing has no first child, is left
\* to C2.
C1_UnsafeOverwriteIsRejected ==
    \A i \in GuardEvents :
        (call.overwrite /\ log[i].existed /\ ~log[i].ours
            /\ ~EmptyDir(fs0, log[i].path))
        => /\ log[i].out = "ValueError"
           /\ fs[log[i].path] = fs0[log[i].path]
           /\ log[i].path \notin Opened

\* C2: the guard called with overwrite=False on any existing path (a file,
\* a directory with entries, an empty directory) ends in FileExistsError
\* (AlreadyExistsError) and nothing else, the filesystem untouched.
C2_ExistingPathWithoutOverwriteAlreadyExists ==
    (Done("guard") /\ Exists(fs0, call.path) /\ ~call.overwrite)
    => (outcome = "FileExistsError" /\ fs = fs0)

\* C5: the guard succeeds and changes nothing on an absent path; on an
\* existing path the heuristic recognises, with overwrite=True, it removes
\* the path, changes nothing else and succeeds; and whenever it succeeds
\* nothing of the path's previous content is left.  Stated for paths other
\* than an empty directory.
C5_GuardSuccessMeansClearPath ==
    (Done("guard") /\ ~EmptyDir(fs0, call.path))
    => /\ ~Exists(fs0, call.path) => (outcome = "ok" /\ fs = fs0)
       /\ (call.overwrite /\ log[1].existed /\ log[1].ours)
          => /\ outcome = "ok"
             /\ ~Exists(fs, call.path)
             /\ \A p \in Paths \ {call.path} : fs[p] = fs0[p]
       /\ outcome = "ok" => ~Exists(fs, call.path)

----------------------------------------------------------------------------
(* The event-log writer.                                                   *)

StepSeq(series) == [n \in DOMAIN series |-> series[n].step]

SameTagsAndSteps(mean, std) ==
    /\ TagsIn(mean) = TagsIn(std)
    /\ \A t \in TagsIn(mean) : StepSeq(SeriesFor(mean, t)) = StepSeq(SeriesFor(std, t))

Hits(recs, tag, step) == {i \in DOMAIN recs : recs[i].tag = tag /\ recs[i].step = step}

\* C3: for a dataset with "mean" and "std" over the same tags (in any
\* insertion order) and the same steps, a successful write_tb_events puts
\* into prefix-std, for every tag and step of the mean table, exactly one
\* combined record of that tag holding mean + std and mean - std with the
\* std of the same tag, and puts the mean values unchanged into prefix-mean.
C3_BandPairsMeanWithStdOfSameTag ==
    (Done("tb") /\ outcome = "ok" /\ Merged(orig)
        /\ SameTagsAndSteps(Get(orig, "mean"), Get(orig, "std")))
    => LET mean  == Get(orig, "mean")
           std   == Get(orig, "std")
           band  == NewestRecs(fs, Dest(call.path, "std"))
           plain == NewestRecs(fs, Dest(call.path, "mean"))
       IN  \A t \in TagsIn(mean) : \A n \in DOMAIN SeriesFor(mean, t) :
              LET m  == SeriesFor(mean, t)[n]
                  sd == SeriesFor(std, t)[n]
              IN  /\ Cardinality(Hits(band, t, m.step)) = 1
                  /\ \A i \in Hits(band, t, m.step) :
                        /\ band[i].kind = "scalars"
                        /\ band[i].values = <<Add(m.value, sd.value),
                                              Sub(m.value, sd.value)>>
                  /\ Cardinality(Hits(plain, t, m.step)) = 1
                  /\ \A i \in Hits(plain, t, m.step) : plain[i].values = <<m.value>>

\* C4: after a successful write_tb_events the destinations written are
\* exactly prefix-op for the operations of the dataset; every destination
\* other than a merged prefix-std contains exactly one plain point per
\* (tag, step) of its operation, the value verbatim, in increasing step
\* order within a tag, and nothing else; a merged prefix-std contains no
\* plain point.
C4_DestinationsHoldExactlyThePoints ==
    (Done("tb") /\ outcome = "ok")
    => /\ Opened = {Dest(call.path, op) : op \in Keys(orig)}
       /\ \A op \in Keys(orig) :
            LET recs == AllRecs(fs, Dest(call.path, op))
                tt   == Get(orig, op)
            IN  IF op = "std" /\ Merged(orig)
                THEN \A i \in DOMAIN recs : recs[i].kind # "scalar"
                ELSE /\ \A i \in DOMAIN recs :
                          /\ recs[i].kind = "scalar"
                          /\ recs[i].tag \in TagsIn(tt)
                          /\ recs[i].step \in StepsOf(SeriesFor(tt, recs[i].tag))
                     /\ \A t \in TagsIn(tt) : \A n \in DOMAIN SeriesFor(tt, t) :
                          /\ Cardinality(Hits(recs, t, SeriesFor(tt, t)[n].step)) = 1
                          /\ \A i \in Hits(recs, t, SeriesFor(tt, t)[n].step) :
                                recs[i].values = <<SeriesFor(tt, t)[n].value>>
                     /\ \A i, j \in DOMAIN recs :
                          (i < j /\ recs[i].tag = recs[j].tag)
                          => recs[i].step < recs[j].step

\* C9: write_tb_events changes the caller's dataset in one way only: the
\* "std" entry is removed exactly when "mean" and "std" are both present at
\* the start of the call, whether the call then succeeds or fails; every
\* other entry, tag and value stays; write_csv leaves the dataset as it was.
C9_OnlyStdLeavesTheDataset ==
    /\ (call.fn = "tb" /\ pc # "ready")
       => dataset = SelectSeq(orig, LAMBDA e : ~(Merged(orig) /\ e.op = "std"))
    /\ (call.fn = "tb" /\ pc = "ready") => dataset = orig
    /\ call.fn = "csv" => dataset = orig

\* A call that merged the band, wrote a destination and failed at a later one.
C9_Witness ==
    /\ Done("tb") /\ outcome \notin {"ok", "none"}
    /\ Opened # {}
    /\ Merged(orig)
    /\ "std" \notin Keys(dataset)
    /\ Len(dataset) = Len(orig) - 1

----------------------------------------------------------------------------
(* The table writer.                                                       *)

\* The table a successful write_csv leaves at its path, read back.
Reloaded == ReadCsv(fs[call.path].data)

Distinct(seq) == \A i, j \in DOMAIN seq : seq[i] = seq[j] => i = j

\* The columns are keyed (tag, operation), one per series; the rows are
\* keyed by step, one per step of the union of all the series' steps; a
\* cell holds its series' value at the row's step, NaN where the series has
\* no such step.
TableShape(t, d) ==
    /\ Distinct(t.columns) /\ Distinct(t.index)
    /\ {t.columns[c] : c \in DOMAIN t.columns}
         = UNION {{<<d[i].tags[j].tag, d[i].op>> : j \in DOMAIN d[i].tags} : i \in DOMAIN d}
    /\ {t.index[r] : r \in DOMAIN t.index}
         = UNION {UNION {StepsOf(d[i].tags[j].series) : j \in DOMAIN d[i].tags}
                  : i \in DOMAIN d}
    /\ \A r \in DOMAIN t.index, c \in DOMAIN t.columns :
          t.rows[r][c] = ValueAt(SeriesFor(Get(d, t.columns[c][2]), t.columns[c][1]),
                                 t.index[r])

C8_NonCsvPathIsRejectedBeforeTheGuard ==
    (Done("csv") /\ ~EndsWith(call.path, ".csv"))
    => /\ outcome = "AssertionError"
       /\ fs = fs0
       /\ log = <<>>

\* Such a call on an existing event-log directory, with overwrite=True.
C8_Witness ==
    /\ Done("csv") /\ call.path = TxtPath
    /\ call.overwrite
    /\ IsDir(fs0, call.path)
    /\ dataset # <<>>
    /\ outcome = "AssertionError"

----------------------------------------------------------------------------
(* A second call.                                                          *)

\* Before the first call every destination was absent or an earlier output
\* of these writers: an event-log directory holding event files only, or a
\* table file.
ProducedHere(f) ==
    IF call.fn = "tb"
    THEN \A op \in OpSet :
            \/ ~Exists(f, Dest(call.path, op))
            \/ f[Dest(call.path, op)] = KindNode("ours")
    ELSE ~Exists(f, call.path) \/ f[call.path].kind = "file"

\* C6: the same write made twice with overwrite=True on destinations these
\* writers produced succeeds both times, and every destination holds after
\* the second call what it held after the first.
C6_SecondWriteChangesNothing ==
    (call.fn \in {"tb", "csv"} /\ call.no = 2 /\ pc = "done"
        /\ prev.outcome = "ok" /\ prev.overwrite /\ ProducedHere(prev.fs0))
    => /\ outcome = "ok"
       /\ \A p \in Paths : fs[p] = prev.fs[p]

RECURSIVE PositionsFrom(_, _)
PositionsFrom(lens, pos) ==
    IF pos[1] > Len(lens) THEN <<>>
    ELSE <<pos>> \o PositionsFrom(lens, Norm(lens, pos[1], pos[2] + 1))

\* What an uninterrupted write_tb_events of dataset d leaves at the
\* destination of op when it starts from a cleared destination.
CleanDir(d, op) ==
    LET band == op = "std" /\ Merged(d)
        lens == IF band THEN BandLens(Get(d, "mean"), Get(d, "std"))
                ELSE PlainLens(Get(d, op))
        at   == PositionsFrom(lens, Norm(lens, 1, 1))
    IN  DirNode(<<[name |-> NewEventFile.name,
                   recs |-> [n \in DOMAIN at |->
                               IF band
                               THEN BandRecord(Get(d, "mean"), Get(d, "std"),
                                               at[n][1], at[n][2])
                               ELSE PlainRecord(Get(d, op), at[n][1], at[n][2])]]>>)

\* C10: after a write_tb_events interrupted at any point, the same call
\* made again with overwrite=True finds every destination absent or
\* recognised by the heuristic, succeeds, and leaves what an uninterrupted
\* call leaves.
C10_RetryAfterInterruptionRecovers ==
    (call.fn = "tb" /\ call.no = 2 /\ pc = "done"
        /\ prev.outcome = "interrupted" /\ ProducedHere(prev.fs0))
    => /\ \A i \in GuardEvents : ~log[i].existed \/ log[i].ours
       /\ outcome = "ok"
       /\ \A op \in Keys(orig) : fs[Dest(call.path, op)] = CleanDir(orig, op)

=============================================================================
